---- MODULE Spec2Model ----
(***************************************************************************)
(* libcredhelper, macOS adapter (src/src/libcred_macos.cpp).               *)
(*                                                                         *)
(* The five operations set_password, get_password, delete_password,        *)
(* find_password and find_credentials over the keychain.  The keychain is  *)
(* a set of items; every Sec* call is one atomic step of it that either    *)
(* answers the query or reports a fault status and changes nothing.        *)
(*                                                                         *)
(* A std::string is a sequence of bytes, a CFString a sequence of UTF-16   *)
(* code units, a CFData a sequence of bytes.  A reference that may be NULL *)
(* is <<>> (NULL) or <<v>>.                                                *)
(***************************************************************************)
EXTENDS Integers, Sequences, FiniteSets, TLC

NULL == << >>

Ref(v) == << v >>

(***************************************************************************)
(* Strings                                                                 *)
(***************************************************************************)

\* Index of the first NUL byte of s, or Len(s) + 1: where a reader of
\* s.c_str() stops.
FirstNul(s) ==
    IF \E i \in 1..Len(s) : s[i] = 0
    THEN CHOOSE i \in 1..Len(s) : s[i] = 0 /\ \A j \in 1..(i - 1) : s[j] # 0
    ELSE Len(s) + 1

\* The C string a std::string hands out: its bytes up to the first NUL.
\* Also std::string(const char*), which reads up to the first NUL.
CStr(s) == SubSeq(s, 1, FirstNul(s) - 1)

\* UTF-8, restricted to the characters the inputs below are written in:
\* one byte 0..127 is the code unit of that value, the three bytes
\* E2 82 AC are the one code unit U+20AC, anything else is malformed.
RECURSIVE Utf8Valid(_)
Utf8Valid(b) ==
    IF b = << >> THEN TRUE
    ELSE IF b[1] < 128 THEN Utf8Valid(Tail(b))
    ELSE IF Len(b) >= 3 /\ b[1] = 226 /\ b[2] = 130 /\ b[3] = 172
         THEN Utf8Valid(SubSeq(b, 4, Len(b)))
    ELSE FALSE

RECURSIVE Utf8Units(_)
Utf8Units(b) ==
    IF b = << >> THEN << >>
    ELSE IF b[1] < 128 THEN << b[1] >> \o Utf8Units(Tail(b))
    ELSE << 8364 >> \o Utf8Units(SubSeq(b, 4, Len(b)))

RECURSIVE Utf8Bytes(_)
Utf8Bytes(u) ==
    IF u = << >> THEN << >>
    ELSE IF u[1] < 128 THEN << u[1] >> \o Utf8Bytes(Tail(u))
    ELSE << 226, 130, 172 >> \o Utf8Bytes(Tail(u))

\* CFStringCreateWithCString(NULL, s.c_str(), kCFStringEncodingUTF8): the
\* string of the bytes up to the first NUL, NULL when they are not UTF-8.
CFStringCreateWithCString(s) ==
    IF Utf8Valid(CStr(s)) THEN Ref(Utf8Units(CStr(s))) ELSE NULL

\* CFDataCreate with a fault: the length taken with strlen.
CFDataCreate_Strlen(s) == CStr(s)

\* CFDataCreate(NULL, password.c_str(), password.length()): all
\* password.length() bytes, NUL bytes included.
CFDataCreate(s) == SubSeq(s, 1, Len(s))

\* CFDataToStdString with a fault: the bytes read as a C string.
CFDataToStdString_CString(d) == CStr(d)

\* std::string((const char*) CFDataGetBytePtr(d), CFDataGetLength(d)).
CFDataToStdString(d) == SubSeq(d, 1, Len(d))

\* CFStringCreateFromExternalRepresentation(NULL, d, kCFStringEncodingUTF8):
\* NULL when the bytes are not UTF-8.
CFStringCreateFromExternalRepresentation(d) ==
    IF Utf8Valid(d) THEN Ref(Utf8Units(d)) ELSE NULL

\* CFStringToStdString of a string (not NULL) with code units u.  `fast` is
\* whether CFStringGetCStringPtr hands out a pointer.  Otherwise the string
\* is copied into a buffer of length * 2 + 1 bytes, which fails when the
\* UTF-8 form and its NUL do not fit.
CFStringToStdString(u, fast) ==
    IF fast THEN CStr(Utf8Bytes(u))
    ELSE IF Len(Utf8Bytes(u)) + 1 <= Len(u) * 2 + 1 THEN CStr(Utf8Bytes(u))
    ELSE << >>

(***************************************************************************)
(* The keychain                                                            *)
(***************************************************************************)

\* An item: its class (kSecClass), its attributes kSecAttrServer,
\* kSecAttrService and kSecAttrAccount (NULL when the item has none) and its
\* kSecValueData.  A query has the same attributes, NULL for one it does
\* not constrain.
Item(cls, server, service, acct, data) ==
    [cls |-> cls, server |-> server, service |-> service, acct |-> acct,
     data |-> data]

Query(cls, server, service, acct) ==
    [cls |-> cls, server |-> server, service |-> service, acct |-> acct]

Match(i, q) ==
    /\ i.cls = q.cls
    /\ q.server = NULL \/ i.server = q.server
    /\ q.service = NULL \/ i.service = q.service
    /\ q.acct = NULL \/ i.acct = q.acct

Matching(st, q) == {i \in st : Match(i, q)}

\* Two items the keychain takes for the same one.
SameKey(i, j) ==
    /\ i.cls = j.cls
    /\ i.server = j.server
    /\ i.service = j.service
    /\ i.acct = j.acct

\* The statuses a call reports when the keychain cannot answer it: one the
\* keychain has a message for, and one it has none for.
FaultStatuses == {"errSecAuthFailed", "errSecNoMessage"}

\* What a call meets: the keychain answers ("ok") or reports a fault.
Answers == {"ok"} \cup FaultStatuses

\* SecItemUpdate(query, update): every matching item takes the new data.
SecItemUpdate(st, q, data, f) ==
    IF f # "ok" THEN [status |-> f, store |-> st]
    ELSE IF Matching(st, q) = {} THEN [status |-> "errSecItemNotFound", store |-> st]
    ELSE [status |-> "errSecSuccess",
          store |-> (st \ Matching(st, q))
                    \cup {[i EXCEPT !.data = data] : i \in Matching(st, q)}]

\* SecItemAdd(attributes, NULL): refused when the item is there already.
SecItemAdd(st, item, f) ==
    IF f # "ok" THEN [status |-> f, store |-> st]
    ELSE IF \E i \in st : SameKey(i, item)
         THEN [status |-> "errSecDuplicateItem", store |-> st]
    ELSE [status |-> "errSecSuccess", store |-> st \cup {item}]

\* SecItemDelete(query): every matching item goes.
SecItemDelete(st, q, f) ==
    IF f # "ok" THEN [status |-> f, store |-> st]
    ELSE IF Matching(st, q) = {} THEN [status |-> "errSecItemNotFound", store |-> st]
    ELSE [status |-> "errSecSuccess", store |-> st \ Matching(st, q)]

\* SecItemCopyMatching(query, &result) with kSecMatchLimitOne: the answers
\* it can give, one per matching item; result stays NULL unless it
\* succeeds.
SecItemCopyMatchingOne(st, q, f) ==
    IF f # "ok" THEN {[status |-> f, result |-> NULL]}
    ELSE IF Matching(st, q) = {} THEN {[status |-> "errSecItemNotFound", result |-> NULL]}
    ELSE {[status |-> "errSecSuccess", result |-> Ref(i)] : i \in Matching(st, q)}

\* The orders an array can list the items of a set in.
RECURSIVE Orders(_)
Orders(S) ==
    IF S = {} THEN {<< >>}
    ELSE UNION {{<< i >> \o o : o \in Orders(S \ {i})} : i \in S}

\* SecItemCopyMatching(query, &result) with kSecMatchLimitAll: the matching
\* items, in an order of the keychain's choosing.
SecItemCopyMatchingAll(st, q, f) ==
    IF f # "ok" THEN {[status |-> f, result |-> NULL]}
    ELSE IF Matching(st, q) = {} THEN {[status |-> "errSecItemNotFound", result |-> NULL]}
    ELSE {[status |-> "errSecSuccess", result |-> Ref(o)] : o \in Orders(Matching(st, q))}

\* SecCopyErrorMessageString(status, NULL): the message, or NULL when the
\* keychain has none for the status.
SecCopyErrorMessageString(status) ==
    CASE status = "errSecAuthFailed" ->
            Ref("The user name or passphrase you entered is not correct.")
      [] status = "errSecDuplicateItem" ->
            Ref("The specified item already exists in the keychain.")
      [] status = "errSecItemNotFound" ->
            Ref("The specified item could not be found in the keychain.")
      [] OTHER -> NULL

(***************************************************************************)
(* The operations.  Each is the set of outcomes the call can have, one per *)
(* answer of the keychain: the result, the keychain after the call, what   *)
(* the outputs hold, the native objects created and the ones released, in  *)
(* order, and the statuses the keychain reported to it, in order.          *)
(* crashed: the call did not return (a NULL reference was handed to        *)
(* CoreFoundation).                                                        *)
(***************************************************************************)

GenericError == "An unknown error occurred."

\* A native object of a call: the variable that holds it, and the round of
\* the loop it was created in (0 outside a loop).
H(name) == << name, 0 >>

\* errorStatusToString: the message of the status when CFStringGetCStringPtr
\* hands out a pointer to it, the generic message when it does not.  A NULL
\* message string is passed on to CFStringGetCStringPtr and CFRelease.
errorStatusToString(status) ==
    IF SecCopyErrorMessageString(status) = NULL
    THEN {[crashed |-> TRUE, str |-> "", created |-> << >>, released |-> << >>]}
    ELSE {[crashed |-> FALSE, str |-> s,
           created |-> << H("errorMessageString") >>,
           released |-> << H("errorMessageString") >>]
            : s \in {SecCopyErrorMessageString(status)[1], GenericError}}

\* The outcome of a call that stopped in CoreFoundation.
Crash(st, error, statuses, created, released) ==
    [res |-> "NONE", crashed |-> TRUE, store |-> st, error |-> error,
     statuses |-> statuses, created |-> created, released |-> released]

\* The outcomes of the FAIL_ERROR return (*error = errorStatusToString(status)).
FailError(st, error, statuses, created, released) ==
    {IF e.crashed
     THEN Crash(st, error, statuses, created, released)
     ELSE [res |-> "FAIL_ERROR", crashed |-> FALSE, store |-> st, error |-> e.str,
           statuses |-> statuses, created |-> created \o e.created,
           released |-> released \o e.released]
        : e \in errorStatusToString(statuses[Len(statuses)])}

\* The query dictionaries of the operations.  set_password, get_password,
\* delete_password and find_password look among the internet passwords, by
\* kSecAttrServer; find_credentials and getCredentialsForItem look among the
\* generic passwords, by kSecAttrService.
SetPasswordQuery(service, account) ==
    Query("inet", CFStringCreateWithCString(service), NULL,
          CFStringCreateWithCString(account))

GetPasswordQuery(service, account) ==
    Query("inet", CFStringCreateWithCString(service), NULL,
          CFStringCreateWithCString(account))

\* DeletePasswordQuery with a fault: the class and attribute find_credentials
\* looks by.
DeletePasswordQuery_Generic(service, account) ==
    Query("genp", NULL, CFStringCreateWithCString(service),
          CFStringCreateWithCString(account))

DeletePasswordQuery(service, account) ==
    Query("inet", CFStringCreateWithCString(service), NULL,
          CFStringCreateWithCString(account))

\* FindPasswordQuery with a fault: the service left out of the query.
FindPasswordQuery_AnyService(service) == Query("inet", NULL, NULL, NULL)

FindPasswordQuery(service) ==
    Query("inet", CFStringCreateWithCString(service), NULL, NULL)

FindCredentialsQuery(service) ==
    Query("genp", NULL, CFStringCreateWithCString(service), NULL)

ItemQuery(item) == Query("genp", NULL, item.service, item.acct)

\* The attributes AddPassword adds an item with.
AddPasswordAttributes(service, account, password) ==
    Item("inet", CFStringCreateWithCString(service), NULL,
         CFStringCreateWithCString(account), CFDataCreate(password))

AddPasswordCreated ==
    << H("serviceRef"), H("accountRef"), H("passwordDataRef"), H("attributes") >>

\* AddPassword, called with a service and an account set_password has
\* already made strings of.
AddPassword(st, service, account, password, error, f) ==
    LET a == SecItemAdd(st, AddPasswordAttributes(service, account, password), f)
    IN  IF a.status # "errSecSuccess"
        THEN FailError(a.store, error, << a.status >>, AddPasswordCreated, << >>)
        ELSE {[res |-> "SUCCESS", crashed |-> FALSE, store |-> a.store,
               error |-> error, statuses |-> << a.status >>,
               created |-> AddPasswordCreated, released |-> << >>]}

SetPasswordCreated ==
    << H("cfAccount"), H("cfService"), H("cfNewPassword"), H("query"), H("update") >>

\* The outcomes of a callee, seen from a caller that has had the statuses
\* reported and holds the objects.
Within(statuses, created, released, outs) ==
    {[o EXCEPT !.statuses = statuses \o o.statuses,
               !.created = created \o o.created,
               !.released = released \o o.released] : o \in outs}

\* set_password with a fault: the item deleted and added again.
set_password_DeleteThenAdd(st, service, account, password, error) ==
    IF CFStringCreateWithCString(account) = NULL
       \/ CFStringCreateWithCString(service) = NULL
    THEN {Crash(st, error, << >>, << >>, << >>)}
    ELSE UNION {
        LET d == SecItemDelete(st, SetPasswordQuery(service, account), f)
        IN  IF d.status \notin {"errSecSuccess", "errSecItemNotFound"}
            THEN FailError(d.store, error, << d.status >>, SetPasswordCreated, << >>)
            ELSE UNION {Within(<< d.status >>, SetPasswordCreated, << >>,
                               AddPassword(d.store, service, account, password, error, g))
                          : g \in Answers}
        : f \in Answers}

set_password(st, service, account, password, error) ==
    IF CFStringCreateWithCString(account) = NULL
       \/ CFStringCreateWithCString(service) = NULL
    THEN \* CFDictionaryCreate retains a NULL value.
         {Crash(st, error, << >>, << >>, << >>)}
    ELSE UNION {
        LET q == SetPasswordQuery(service, account)
            u == SecItemUpdate(st, q, CFDataCreate(password), f)
        IN  IF u.status = "errSecItemNotFound"
            THEN UNION {Within(<< u.status >>, SetPasswordCreated, << >>,
                               AddPassword(u.store, service, account, password, error, g))
                          : g \in Answers}
            ELSE IF u.status # "errSecSuccess"
            THEN FailError(u.store, error, << u.status >>, SetPasswordCreated, << >>)
            ELSE {[res |-> "SUCCESS", crashed |-> FALSE, store |-> u.store,
                   error |-> error, statuses |-> << u.status >>,
                   created |-> SetPasswordCreated,
                   released |-> SetPasswordCreated]}
        : f \in Answers}

\* An outcome with what the password output holds after the call.
WithPassword(outs, password) == {o @@ [password |-> password] : o \in outs}

GetPasswordCreated == << H("cfAccount"), H("cfService"), H("query") >>

get_password(st, service, account, password, error) ==
    IF CFStringCreateWithCString(account) = NULL
       \/ CFStringCreateWithCString(service) = NULL
    THEN WithPassword({Crash(st, error, << >>, << >>, << >>)}, password)
    ELSE UNION {
        LET q == GetPasswordQuery(service, account)
        IN  UNION {
            IF r.status = "errSecItemNotFound"
            THEN {[res |-> "FAIL_NONFATAL", crashed |-> FALSE, store |-> st,
                   error |-> error, statuses |-> << r.status >>, password |-> password,
                   created |-> GetPasswordCreated, released |-> GetPasswordCreated]}
            ELSE IF r.status # "errSecSuccess"
            THEN WithPassword(FailError(st, error, << r.status >>, GetPasswordCreated,
                                        GetPasswordCreated), password)
            ELSE {[res |-> "SUCCESS", crashed |-> FALSE, store |-> st,
                   error |-> error, statuses |-> << r.status >>,
                   password |-> CFDataToStdString(r.result[1].data),
                   created |-> GetPasswordCreated \o << H("result") >>,
                   released |-> GetPasswordCreated \o << H("result") >>]}
            : r \in SecItemCopyMatchingOne(st, q, f)}
        : f \in Answers}

\* delete_password with a fault: errSecItemNotFound taken for success.
delete_password_NotFoundIsSuccess(st, service, account, error) ==
    IF CFStringCreateWithCString(account) = NULL
       \/ CFStringCreateWithCString(service) = NULL
    THEN {Crash(st, error, << >>, << >>, << >>)}
    ELSE UNION {
        LET d == SecItemDelete(st, DeletePasswordQuery(service, account), f)
        IN  IF d.status \notin {"errSecSuccess", "errSecItemNotFound"}
            THEN FailError(d.store, error, << d.status >>, GetPasswordCreated,
                           GetPasswordCreated)
            ELSE {[res |-> "SUCCESS", crashed |-> FALSE, store |-> d.store,
                   error |-> error, statuses |-> << d.status >>,
                   created |-> GetPasswordCreated, released |-> GetPasswordCreated]}
        : f \in Answers}

delete_password(st, service, account, error) ==
    IF CFStringCreateWithCString(account) = NULL
       \/ CFStringCreateWithCString(service) = NULL
    THEN {Crash(st, error, << >>, << >>, << >>)}
    ELSE UNION {
        LET q == DeletePasswordQuery(service, account)
            d == SecItemDelete(st, q, f)
        IN  IF d.status = "errSecItemNotFound"
            THEN {[res |-> "FAIL_NONFATAL", crashed |-> FALSE, store |-> d.store,
                   error |-> error, statuses |-> << d.status >>,
                   created |-> GetPasswordCreated, released |-> GetPasswordCreated]}
            ELSE IF d.status # "errSecSuccess"
            THEN FailError(d.store, error, << d.status >>, GetPasswordCreated,
                           GetPasswordCreated)
            ELSE {[res |-> "SUCCESS", crashed |-> FALSE, store |-> d.store,
                   error |-> error, statuses |-> << d.status >>,
                   created |-> GetPasswordCreated, released |-> GetPasswordCreated]}
        : f \in Answers}

FindPasswordCreated == << H("cfService"), H("query") >>

find_password(st, service, password, error) ==
    IF CFStringCreateWithCString(service) = NULL
    THEN WithPassword({Crash(st, error, << >>, << >>, << >>)}, password)
    ELSE UNION {
        LET q == FindPasswordQuery(service)
        IN  UNION {
            IF r.status = "errSecItemNotFound"
            THEN {[res |-> "FAIL_NONFATAL", crashed |-> FALSE, store |-> st,
                   error |-> error, statuses |-> << r.status >>, password |-> password,
                   created |-> FindPasswordCreated, released |-> FindPasswordCreated]}
            ELSE IF r.status # "errSecSuccess"
            THEN WithPassword(FailError(st, error, << r.status >>, FindPasswordCreated,
                                        FindPasswordCreated), password)
            ELSE {[res |-> "SUCCESS", crashed |-> FALSE, store |-> st,
                   error |-> error, statuses |-> << r.status >>,
                   password |-> CFDataToStdString(r.result[1].data),
                   created |-> FindPasswordCreated \o << H("result") >>,
                   released |-> FindPasswordCreated \o << H("result") >>]}
            : r \in SecItemCopyMatchingOne(st, q, f)}
        : f \in Answers}

\* Credentials(account, password); Credentials() holds two empty strings.
Credentials(account, password) == [account |-> account, password |-> password]

\* getCredentialsForItem in round idx of the loop of find_credentials: the
\* item is looked up again by its service and account.  A secret that is
\* not UTF-8 gives a NULL string, which is passed on to CFStringToStdString.
getCredentialsForItem(st, item, idx) ==
    UNION {
        LET q == ItemQuery(item)
        IN  UNION {
            IF r.status # "errSecSuccess"
            THEN {[crashed |-> FALSE, cred |-> Credentials(<< >>, << >>),
                   status |-> r.status,
                   created |-> << << "query", idx >> >>,
                   released |-> << << "query", idx >> >>]}
            ELSE IF CFStringCreateFromExternalRepresentation(r.result[1].data) = NULL
            THEN {[crashed |-> TRUE, cred |-> Credentials(<< >>, << >>),
                   status |-> r.status,
                   created |-> << << "query", idx >>, << "result", idx >> >>,
                   released |-> << << "query", idx >> >>]}
            ELSE {[crashed |-> FALSE,
                   cred |-> Credentials(
                       CFStringToStdString(item.acct[1], fastA),
                       CFStringToStdString(
                           CFStringCreateFromExternalRepresentation(
                               r.result[1].data)[1], fastP)),
                   status |-> r.status,
                   created |-> << << "query", idx >>, << "result", idx >>,
                                  << "password", idx >> >>,
                   released |-> << << "query", idx >>, << "password", idx >>,
                                   << "result", idx >> >>]
                    : fastA \in BOOLEAN, fastP \in BOOLEAN}
            : r \in SecItemCopyMatchingOne(st, q, f)}
        : f \in Answers}

\* The loop of find_credentials from round idx on, over the rest of the
\* array: what it appends to the credentials, and the objects it creates
\* and releases.
RECURSIVE ForEachItem(_, _, _, _, _, _, _)
ForEachItem(st, items, idx, credentials, statuses, created, released) ==
    IF items = << >>
    THEN {[crashed |-> FALSE, credentials |-> credentials, statuses |-> statuses,
           created |-> created, released |-> released]}
    ELSE UNION {
        IF c.crashed
        THEN {[crashed |-> TRUE, credentials |-> credentials,
               statuses |-> Append(statuses, c.status),
               created |-> created \o c.created,
               released |-> released \o c.released]}
        ELSE ForEachItem(st, Tail(items), idx + 1, Append(credentials, c.cred),
                         Append(statuses, c.status),
                         created \o c.created, released \o c.released)
        : c \in getCredentialsForItem(st, Head(items), idx)}

FindCredentialsCreated == << H("serviceStr"), H("query") >>

find_credentials(st, service, credentials, error) ==
    IF CFStringCreateWithCString(service) = NULL
    THEN \* CFDictionaryAddValue retains a NULL value.
         {Crash(st, error, << >>, << >>, << >>) @@ [credentials |-> credentials]}
    ELSE UNION {
        LET q == FindCredentialsQuery(service)
        IN  UNION {
            IF r.status = "errSecSuccess"
            THEN {IF l.crashed
                  THEN Crash(st, error, l.statuses, l.created, l.released)
                        @@ [credentials |-> l.credentials]
                  ELSE [res |-> "SUCCESS", crashed |-> FALSE, store |-> st,
                        error |-> error, statuses |-> l.statuses,
                        credentials |-> l.credentials,
                        created |-> l.created, released |-> l.released \o << H("result") >>]
                    : l \in ForEachItem(st, r.result[1], 1, credentials, << r.status >>,
                                        FindCredentialsCreated \o << H("result") >>,
                                        FindCredentialsCreated)}
            ELSE IF r.status = "errSecItemNotFound"
            THEN {[res |-> "FAIL_NONFATAL", crashed |-> FALSE, store |-> st,
                   error |-> error, statuses |-> << r.status >>, credentials |-> credentials,
                   created |-> FindCredentialsCreated,
                   released |-> FindCredentialsCreated]}
            ELSE {o @@ [credentials |-> credentials]
                    : o \in FailError(st, error, << r.status >>, FindCredentialsCreated,
                                      FindCredentialsCreated)}
            : r \in SecItemCopyMatchingAll(st, q, f)}
        : f \in Answers}

(***************************************************************************)
(* One caller, one call at a time                                          *)
(***************************************************************************)

VARIABLES
    store,        \* the keychain
    alive,        \* the process has not stopped in CoreFoundation
    op,           \* the last call: its name and arguments
    res,          \* what it returned
    statuses,     \* the statuses the keychain reported to it, in order
    password,     \* the caller's password output after it
    error,        \* the caller's error string after it
    credentials,  \* the caller's credentials vector after it
    created,      \* the native objects it created, in order
    released,     \* the native objects it released, in order
    store0,       \* the keychain before it
    password0,    \* the password output before it
    error0,       \* the error string before it
    prev,         \* the write before it that it looks back on (LastWrite)
    pc,           \* concurrent callers: where each caller is in its call
    call,         \* concurrent callers: the call each caller is in, or was last in
    cst,          \* concurrent callers: the status of each caller's last keychain step
    ret           \* concurrent callers: what each caller's last call returned

seqvars == << alive, op, res, statuses, password, error, credentials,
              created, released, store0, password0, error0, prev >>

concvars == << pc, call, cst, ret >>

vars == << store, seqvars, concvars >>

\* The arguments the calls are made with: a service with a NUL byte in it
\* and one that is not UTF-8 among them, an account outside ASCII, a secret
\* with a NUL byte and a byte that is not UTF-8.
Services == {<< 97 >>, << 98, 0, 97 >>, << 255 >>}

Accounts == {<< 97 >>, << 226, 130, 172 >>}

Passwords == {<< 112 >>, << 113, 0, 255 >>}

\* What the caller's outputs hold when a call starts.
PasswordBefore == << 120 >>

ErrorBefore == "stale"

\* Generic-password items other programs have put in the keychain: the
\* operations above create none.
GenericItems ==
    {Item("genp", NULL, Ref(<< 97 >>), Ref(<< 97 >>), << 112 >>),
     Item("genp", NULL, Ref(<< 97 >>), Ref(<< 8364 >>), << 112, 0, 113 >>)}

NoCall == [name |-> "none", service |-> << >>, account |-> << >>, password |-> << >>]

Call(name, service, account, pw) ==
    [name |-> name, service |-> service, account |-> account, password |-> pw]

\* The secret the keychain holds for (service, account) as set_password
\* writes it: NULL when it holds none.
Held(st, service, account) ==
    {i \in st : /\ i.cls = "inet"
                /\ i.server = CFStringCreateWithCString(service)
                /\ i.acct = CFStringCreateWithCString(account)}

Stored(st, service, account) ==
    IF Held(st, service, account) = {} THEN NULL
    ELSE Ref((CHOOSE i \in Held(st, service, account) : TRUE).data)

NoWrite == [name |-> "none", password |-> << >>, res |-> "NONE", old |-> NULL]

\* What a get_password or delete_password looks back on: the call that ended
\* right before it, when that was a set_password or delete_password of the
\* same service and account: what it wrote, what it returned and the secret
\* that was stored before it.
LastWrite(next) ==
    IF /\ next.name \in {"get_password", "delete_password"}
       /\ op.name \in {"set_password", "delete_password"}
       /\ op.service = next.service
       /\ op.account = next.account
    THEN [name |-> op.name, password |-> op.password, res |-> res,
          old |-> Stored(store0, op.service, op.account)]
    ELSE NoWrite

\* The callers of the concurrent specification.
NumCallers == 2

Callers == 1..NumCallers

SeqInit ==
    /\ store = GenericItems
    /\ alive = TRUE
    /\ op = NoCall
    /\ res = "NONE"
    /\ statuses = << >>
    /\ password = PasswordBefore
    /\ error = ErrorBefore
    /\ credentials = << >>
    /\ created = << >>
    /\ released = << >>
    /\ store0 = store
    /\ password0 = PasswordBefore
    /\ error0 = ErrorBefore
    /\ prev = NoWrite

ConcInit ==
    /\ pc = [c \in Callers |-> "idle"]
    /\ call = [c \in Callers |-> NoCall]
    /\ cst = [c \in Callers |-> "none"]
    /\ ret = [c \in Callers |-> "NONE"]

Init == SeqInit /\ ConcInit

\* A call ends with outcome o.
Ends(c, o) ==
    /\ op' = c
    /\ res' = o.res
    /\ statuses' = o.statuses
    /\ alive' = ~o.crashed
    /\ store' = o.store
    /\ error' = o.error
    /\ created' = o.created
    /\ released' = o.released
    /\ store0' = store
    /\ password0' = PasswordBefore
    /\ error0' = ErrorBefore
    /\ prev' = LastWrite(c)
    /\ UNCHANGED concvars

SetPassword ==
    /\ alive
    /\ \E service \in Services, account \in Accounts, pw \in Passwords :
        \E o \in set_password(store, service, account, pw, ErrorBefore) :
            /\ Ends(Call("set_password", service, account, pw), o)
            /\ password' = PasswordBefore
            /\ credentials' = << >>

GetPassword ==
    /\ alive
    /\ \E service \in Services, account \in Accounts :
        \E o \in get_password(store, service, account, PasswordBefore, ErrorBefore) :
            /\ Ends(Call("get_password", service, account, << >>), o)
            /\ password' = o.password
            /\ credentials' = << >>

DeletePassword ==
    /\ alive
    /\ \E service \in Services, account \in Accounts :
        \E o \in delete_password(store, service, account, ErrorBefore) :
            /\ Ends(Call("delete_password", service, account, << >>), o)
            /\ password' = PasswordBefore
            /\ credentials' = << >>

FindPassword ==
    /\ alive
    /\ \E service \in Services :
        \E o \in find_password(store, service, PasswordBefore, ErrorBefore) :
            /\ Ends(Call("find_password", service, << >>, << >>), o)
            /\ password' = o.password
            /\ credentials' = << >>

FindCredentials ==
    /\ alive
    /\ \E service \in Services :
        \E o \in find_credentials(store, service, << >>, ErrorBefore) :
            /\ Ends(Call("find_credentials", service, << >>, << >>), o)
            /\ password' = PasswordBefore
            /\ credentials' = o.credentials

SeqNext ==
    \/ SetPassword
    \/ GetPassword
    \/ DeletePassword
    \/ FindPassword
    \/ FindCredentials

Spec == Init /\ [][SeqNext]_vars

(***************************************************************************)
(* Several callers at once.  The library holds no lock: a call is its      *)
(* keychain steps, each atomic in the keychain, and other callers' steps   *)
(* come between them and between the last of them and the return.  The     *)
(* callers of this specification write one (service, account).             *)
(***************************************************************************)

ConcService == << 97 >>

ConcAccount == << 226, 130, 172 >>

\* set_password up to its SecItemUpdate: on errSecItemNotFound the caller
\* goes on to AddPassword, otherwise to its return.
SetUpdate(c) ==
    /\ alive
    /\ pc[c] = "idle"
    /\ \E pw \in Passwords, f \in Answers :
        LET u == SecItemUpdate(store, SetPasswordQuery(ConcService, ConcAccount),
                               CFDataCreate(pw), f)
        IN  /\ store' = u.store
            /\ cst' = [cst EXCEPT ![c] = u.status]
            /\ call' = [call EXCEPT ![c] = Call("set_password", ConcService, ConcAccount, pw)]
            /\ pc' = [pc EXCEPT ![c] = IF u.status = "errSecItemNotFound"
                                       THEN "add" ELSE "set_return"]
            /\ ret' = [ret EXCEPT ![c] = "NONE"]
    /\ UNCHANGED seqvars

\* SetAdd with a fault: errSecDuplicateItem taken for success.
SetAdd_DuplicateIsSuccess(c) ==
    /\ alive
    /\ pc[c] = "add"
    /\ \E g \in Answers :
        LET a == SecItemAdd(store,
                            AddPasswordAttributes(call[c].service, call[c].account,
                                                  call[c].password), g)
        IN  /\ store' = a.store
            /\ cst' = [cst EXCEPT ![c] = IF a.status = "errSecDuplicateItem"
                                         THEN "errSecSuccess" ELSE a.status]
            /\ pc' = [pc EXCEPT ![c] = "set_return"]
    /\ UNCHANGED << seqvars, call, ret >>

\* AddPassword up to its SecItemAdd.
SetAdd(c) ==
    /\ alive
    /\ pc[c] = "add"
    /\ \E g \in Answers :
        LET a == SecItemAdd(store,
                            AddPasswordAttributes(call[c].service, call[c].account,
                                                  call[c].password), g)
        IN  /\ store' = a.store
            /\ cst' = [cst EXCEPT ![c] = a.status]
            /\ pc' = [pc EXCEPT ![c] = "set_return"]
    /\ UNCHANGED << seqvars, call, ret >>

\* The rest of a call after its last keychain step: SUCCESS, FAIL_NONFATAL
\* when a lookup or a deletion found nothing, or the FAIL_ERROR return,
\* which stops the process when the status has no message.
Returns(c, at) ==
    /\ alive
    /\ pc[c] = at
    /\ \/ /\ cst[c] = "errSecSuccess"
          /\ ret' = [ret EXCEPT ![c] = "SUCCESS"]
          /\ alive' = alive
       \/ /\ cst[c] = "errSecItemNotFound"
          /\ ret' = [ret EXCEPT ![c] = "FAIL_NONFATAL"]
          /\ alive' = alive
       \/ /\ cst[c] \notin {"errSecSuccess", "errSecItemNotFound"}
          /\ \E e \in errorStatusToString(cst[c]) :
                /\ alive' = ~e.crashed
                /\ ret' = [ret EXCEPT ![c] = IF e.crashed THEN "NONE" ELSE "FAIL_ERROR"]
    /\ pc' = [pc EXCEPT ![c] = "idle"]
    /\ UNCHANGED << store, op, res, statuses, password, error, credentials,
                    created, released, store0, password0, error0, prev, call, cst >>

SetReturn(c) == Returns(c, "set_return")

\* delete_password up to its SecItemDelete.
Delete(c) ==
    /\ alive
    /\ pc[c] = "idle"
    /\ \E f \in Answers :
        LET d == SecItemDelete(store, DeletePasswordQuery(ConcService, ConcAccount), f)
        IN  /\ store' = d.store
            /\ cst' = [cst EXCEPT ![c] = d.status]
            /\ call' = [call EXCEPT ![c] = Call("delete_password", ConcService, ConcAccount, << >>)]
            /\ pc' = [pc EXCEPT ![c] = "delete_return"]
            /\ ret' = [ret EXCEPT ![c] = "NONE"]
    /\ UNCHANGED seqvars

DeleteReturn(c) == Returns(c, "delete_return")

ConcNext ==
    \E c \in Callers :
        \/ SetUpdate(c)
        \/ SetAdd(c)
        \/ SetReturn(c)
        \/ Delete(c)
        \/ DeleteReturn(c)

SpecConc == Init /\ [][ConcNext]_vars

(***************************************************************************)
(* Properties                                                              *)
(***************************************************************************)

\* The keychain reported no fault to the last call.
Answered ==
    \A k \in DOMAIN statuses : statuses[k] \in {"errSecSuccess", "errSecItemNotFound"}

\* The records set_password has stored under a service.
Under(st, service) ==
    {i \in st : i.cls = "inet" /\ i.server = CFStringCreateWithCString(service)}

\* The generic passwords of a service.
GenericUnder(st, service) ==
    {i \in st : i.cls = "genp" /\ i.service = CFStringCreateWithCString(service)}

\* How often h occurs in a sequence.
Count(seq, h) == Cardinality({k \in DOMAIN seq : seq[k] = h})

Range(seq) == {seq[k] : k \in DOMAIN seq}

C2_EnumerationComplete_AsClaimed ==
    (op.name = "find_credentials" /\ alive /\ Answered
     /\ Under(store0, op.service) # {})
        => /\ res = "SUCCESS"
           /\ Len(credentials) = Cardinality(Under(store0, op.service))
           /\ Range(credentials) =
                {Credentials(Utf8Bytes(i.acct[1]), i.data) : i \in Under(store0, op.service)}

\* C3, as claimed: when a call returns, every native object it created has
\* been released exactly once, and nothing else has been released.
C3_ReleasedExactlyOnce_AsClaimed ==
    alive => \A h \in Range(created) \cup Range(released) :
                Count(created, h) = 1 /\ Count(released, h) = 1

\* C4: of two delete_password calls in a row on a key that is present, the
\* keychain reporting no fault to either, the first returns SUCCESS and the
\* second FAIL_NONFATAL; the key is absent after the first and the second
\* leaves the keychain as it was.
C4_IdempotentDelete ==
    (op.name = "delete_password" /\ prev.name = "delete_password"
     /\ prev.old # NULL /\ prev.res # "FAIL_ERROR" /\ Answered)
        => /\ alive
           /\ prev.res = "SUCCESS"
           /\ res = "FAIL_NONFATAL"
           /\ Held(store0, op.service, op.account) = {}
           /\ store = store0

C4_Witness ==
    /\ op.name = "delete_password"
    /\ prev.name = "delete_password"
    /\ prev.old = Ref(<< 113, 0, 255 >>)
    /\ prev.res = "SUCCESS"
    /\ res = "FAIL_NONFATAL"

\* The keychain before the last call held nothing that matches its query.
NoMatch ==
    CASE op.name \in {"get_password", "delete_password"} ->
            Held(store0, op.service, op.account) = {}
      [] op.name = "find_password" -> Under(store0, op.service) = {}
      [] op.name = "find_credentials" -> GenericUnder(store0, op.service) = {}
      [] OTHER -> FALSE

C6_NoPartialState_AsClaimed ==
    /\ (op.name = "set_password" /\ res = "FAIL_ERROR") => store = store0
    /\ (op.name = "get_password" /\ prev.name = "set_password"
        /\ prev.res = "FAIL_ERROR")
            => IF prev.old = NULL THEN res = "FAIL_NONFATAL"
               ELSE res = "SUCCESS" /\ password = prev.old[1]

\* C6, amended: a set_password that returns FAIL_ERROR leaves the keychain
\* as it was, and a get_password right after it, when the keychain reports
\* no fault to it, returns the secret the key had before the failed
\* set_password, or FAIL_NONFATAL if it had none.
C6_NoPartialState ==
    /\ (op.name = "set_password" /\ res = "FAIL_ERROR") => store = store0
    /\ (op.name = "get_password" /\ prev.name = "set_password"
        /\ prev.res = "FAIL_ERROR" /\ Answered)
            => /\ alive
               /\ IF prev.old = NULL THEN res = "FAIL_NONFATAL"
                  ELSE res = "SUCCESS" /\ password = prev.old[1]

\* A set_password of another secret has failed on a key that is present,
\* and the get_password after it returns the secret the key had.
C6_Witness ==
    /\ op.name = "get_password"
    /\ prev.name = "set_password"
    /\ prev.res = "FAIL_ERROR"
    /\ prev.password = << 112 >>
    /\ prev.old = Ref(<< 113, 0, 255 >>)
    /\ res = "SUCCESS"
    /\ password = << 113, 0, 255 >>

\* C8, as claimed: a call that returns FAIL_ERROR has written the
\* keychain's message for the status into the error string, or the generic
\* message when the keychain has none; a call that returns SUCCESS or
\* FAIL_NONFATAL leaves the error string as it was.
C8_ErrorMessage_AsClaimed ==
    /\ (alive /\ res = "FAIL_ERROR")
        => /\ error # ""
           /\ error = IF SecCopyErrorMessageString(statuses[Len(statuses)]) = NULL
                      THEN GenericError
                      ELSE SecCopyErrorMessageString(statuses[Len(statuses)])[1]
    /\ (alive /\ res \in {"SUCCESS", "FAIL_NONFATAL"}) => error = error0

\* C9: a get_password or find_password that does not return SUCCESS leaves
\* the password output as it was; one that returns SUCCESS has put a whole
\* secret of a matching record in it.
C9_OutputUntouched ==
    /\ (op.name \in {"get_password", "find_password"} /\ res # "SUCCESS")
        => password = password0
    /\ (op.name = "get_password" /\ res = "SUCCESS")
        => password \in {i.data : i \in Held(store0, op.service, op.account)}
    /\ (op.name = "find_password" /\ res = "SUCCESS")
        => password \in {i.data : i \in Under(store0, op.service)}

C9_Witness ==
    /\ op.name = "get_password"
    /\ res = "FAIL_ERROR"
    /\ Held(store0, op.service, op.account) # {}
    /\ password = PasswordBefore

\* C10, as claimed: find_password of a service set_password has stored a
\* record under returns SUCCESS with the secret of one of the records of
\* that service, and leaves the keychain as it was.
C10_FindByService_AsClaimed ==
    (op.name = "find_password" /\ Under(store0, op.service) # {})
        => /\ res = "SUCCESS"
           /\ password \in {i.data : i \in Under(store0, op.service)}
           /\ store = store0

\* C10, amended: find_password of a service set_password has stored a
\* record under, when the keychain reports no fault to it, returns SUCCESS
\* with the secret of one of the records of that service; it leaves the
\* keychain as it was in every case.
C10_FindByService ==
    /\ (op.name = "find_password" /\ Under(store0, op.service) # {} /\ Answered)
        => /\ alive
           /\ res = "SUCCESS"
           /\ password \in {i.data : i \in Under(store0, op.service)}
    /\ op.name = "find_password" => store = store0

\* find_password returns a secret of its service while the other service
\* holds a different one, and the service has two accounts.
C10_Witness ==
    /\ op.name = "find_password"
    /\ res = "SUCCESS"
    /\ Cardinality(Under(store0, op.service)) = 2
    /\ \E i \in store0 : i.cls = "inet" /\ i \notin Under(store0, op.service)
                         /\ i.data # password

\* No two items of the keychain have the same class, server, service and
\* account.
UniqueKeys(st) == \A i, j \in st : SameKey(i, j) => i = j

\* Caller c returns SUCCESS from set_password in this step.
SetReturnsSuccess(c) ==
    /\ pc[c] = "set_return"
    /\ pc'[c] = "idle"
    /\ ret'[c] = "SUCCESS"

\* Caller c's SecItemUpdate or SecItemAdd reports success in this step.
SetStepSucceeds(c) ==
    /\ pc[c] \in {"idle", "add"}
    /\ pc'[c] = "set_return"
    /\ cst'[c] = "errSecSuccess"

\* C7, as claimed: under every interleaving of set_password and
\* delete_password calls the keychain holds at most one record per
\* (service, account), and when a set_password returns SUCCESS its secret is
\* the stored one at that moment.
C7_KeyUniqueness_AsClaimed ==
    [][/\ UniqueKeys(store')
       /\ \A c \in Callers :
            SetReturnsSuccess(c)
                => Stored(store', call[c].service, call[c].account)
                        = Ref(call[c].password)]_vars

\* C7, amended: under every interleaving of set_password and
\* delete_password calls the keychain holds at most one record per
\* (service, account); a set_password returns SUCCESS only after a
\* SecItemUpdate or SecItemAdd of its own that reported success, and its
\* secret is the stored one at the moment that step completes (other
\* callers may write or delete the key before it returns).
C7_KeyUniqueness ==
    [][/\ UniqueKeys(store')
       /\ \A c \in Callers :
            /\ SetStepSucceeds(c)
                => Stored(store', call'[c].service, call'[c].account)
                        = Ref(call'[c].password)
            /\ SetReturnsSuccess(c) => cst[c] = "errSecSuccess"]_vars

\* Two callers have both missed the update of the same absent key; one has
\* inserted and returned SUCCESS, the other's insert has been refused as a
\* duplicate.
C7_Witness ==
    \E c, d \in Callers :
        /\ c # d
        /\ call[c].name = "set_password"
        /\ pc[c] = "idle"
        /\ ret[c] = "SUCCESS"
        /\ call[d].name = "set_password"
        /\ call[d].password # call[c].password
        /\ pc[d] = "set_return"
        /\ cst[d] = "errSecDuplicateItem"
        /\ Stored(store, call[c].service, call[c].account) = Ref(call[c].password)

====
